---- MODULE Spec2Model ----
(***************************************************************************)
(* Refinement loops of hrw-neurolab/dpp-ai-blockchain:                     *)
(*   src/src/llm_mapping/iterative_refiner.py  (IterativeRefiner)          *)
(*   src/src/llm_mapping/function_refiner.py   (FunctionRefiner)           *)
(*   src/src/llm_mapping/llm_mapping.py        (LlmMapping)                *)
(* and the pipeline that drives them:                                      *)
(*   src/src/run_pipeline.py                   (RunPipeline)               *)
(*   src/src/dataset/mapping_dataset.py        (MappingDataset)            *)
(*   src/src/blockchain/WavesConnector/metric_caller.py  (MetricCaller)    *)
(*                                                                         *)
(* Python values are modelled as tagged records [t, v]: t is the Python    *)
(* type name and v the value's text as a sequence of segments, so that a   *)
(* string is a sequence of segments and concatenation is \o.               *)
(***************************************************************************)
EXTENDS Integers, Sequences, FiniteSets, TLC

\* Largest max_attempts argument a caller passes to a refiner's constructor.
MaxConfigured == 2

\* The calls of a refiner instance that are in flight (one call per run).
Runs == {1, 2}

-----------------------------------------------------------------------------
(* Python values *)

PyNone == [t |-> "None", v |-> <<>>]
PyStr(s) == [t |-> "str", v |-> s]
PyList(s) == [t |-> "list", v |-> s]
PyDict(s) == [t |-> "dict", v |-> s]
PyInt(s) == [t |-> "int", v |-> s]
PyFloat(s) == [t |-> "float", v |-> s]

\* str(x): the text of x; str(None) is the four letters None.
Str(x) == IF x.t = "None" THEN <<"None">> ELSE x.v

\* json.dumps(x, ensure_ascii=False): a str is quoted, None is null, a list
\* or dict is written as its JSON text.
JsonDumps(x) ==
    IF x.t = "str" THEN <<"\"">> \o x.v \o <<"\"">>
    ELSE IF x.t = "None" THEN <<"null">>
    ELSE x.v

-----------------------------------------------------------------------------
(* The external model: what one bm.chain.invoke(payload) does *)

ThinkSegment == "<think>plan</think>"
\* A thinking part that spans several segments of a reply
ThinkOpen == "<think>"
ThinkClose == "</think>"
\* The markdown fence markers (three backquotes), written <fence> here
FencePython == "<fence>python"
FenceJson == "<fence>json"
Fence == "<fence>"

\* Replies to a direct-mapping prompt (the target schema requires x: integer)
ReplyGarbage == <<"no json here">>
ReplyMismatched == <<"{\"x\": 5]">>
ReplyBadRecord == <<"{\"x\": \"five\"}">>
ReplyGoodRecord == <<"{\"x\": 5}">>
ReplyThinkGood == <<ThinkSegment, "{\"x\": 5}">>

\* Sources a model writes into the code block of a mapping-function reply
CodeSyntax == "def map_raw_to_standard(raw) return raw"
CodeImportFails == "import nosuchmodule"
CodeNoDef == "def transform(raw): return raw"
CodeNotCallable == "map_raw_to_standard = 42"
CodeRaises == "def map_raw_to_standard(raw): return raw['missing']"
CodeReturnsList == "def map_raw_to_standard(raw): return [raw]"
CodeBadRecord == "def map_raw_to_standard(raw): return {'x': 'five'}"
CodeGoodRecord == "def map_raw_to_standard(raw): return {'x': 5}"
CodeIdentity == "def map_raw_to_standard(raw): return raw"
CodeMutatesInput == "def map_raw_to_standard(raw): raw['x'] = 5; return dict(raw)"
CodeBindsNone == "map_raw_to_standard = None"

ReplyProse == <<"I cannot write that function.">>
CodeReply(code) == <<FencePython, code, Fence>>

DirectReplies ==
    {ReplyGarbage, ReplyMismatched, ReplyBadRecord, ReplyGoodRecord, ReplyThinkGood}

\* A reply whose only python code block lies inside the thinking part
ReplyThinkCodeOnly ==
    <<ThinkOpen, FencePython, CodeGoodRecord, Fence, ThinkClose, FenceJson, "{}", Fence>>

\* A reply with a code block inside the thinking part and another after it
ReplyThinkCodeThenCode ==
    <<ThinkOpen, FencePython, CodeRaises, Fence, ThinkClose, FencePython, CodeGoodRecord, Fence>>

\* A reply with a draft of the function inside the thinking part and the
\* final function after it
ReplyThinkDraftThenCode ==
    <<ThinkOpen, FencePython, CodeBadRecord, Fence, ThinkClose, FencePython, CodeGoodRecord, Fence>>

\* A reply that goes on after the code block
ReplyCodeThenProse == <<FencePython, CodeIdentity, Fence, "This returns the record.">>

FunctionReplies ==
    {ReplyProse, ReplyThinkCodeOnly, ReplyThinkCodeThenCode, ReplyThinkDraftThenCode,
     ReplyCodeThenProse} \cup
    {CodeReply(c) : c \in {CodeSyntax, CodeImportFails, CodeNoDef, CodeNotCallable,
                           CodeRaises, CodeReturnsList, CodeBadRecord, CodeGoodRecord,
                           CodeIdentity, CodeMutatesInput, CodeBindsNone}}

\* The text of the exception a failing model call raises
LlmErrorText == <<"connection refused">>

\* One invocation of the chain: it raises, or it returns a response with a
\* text and with or without usage_metadata.
InvokeRaises == [llm |-> "raise", usage |-> "none", text |-> <<>>]
InvokeReplies(replies) ==
    {[llm |-> "ok", usage |-> u, text |-> t] : u \in {"absent", "present"}, t \in replies}

Invocations(variant) ==
    {InvokeRaises} \cup
    InvokeReplies(IF variant = "iterative" THEN DirectReplies ELSE FunctionReplies)

\* The invocations drawn when two calls run side by side
PairInvocations(variant) ==
    {InvokeRaises} \cup
    (IF variant = "iterative"
     THEN {[llm |-> "ok", usage |-> "present", text |-> ReplyGarbage],
           [llm |-> "ok", usage |-> "absent", text |-> ReplyGarbage],
           [llm |-> "ok", usage |-> "present", text |-> ReplyBadRecord],
           [llm |-> "ok", usage |-> "present", text |-> ReplyGoodRecord]}
     ELSE {[llm |-> "ok", usage |-> "present", text |-> ReplyProse],
           [llm |-> "ok", usage |-> "absent", text |-> ReplyProse],
           [llm |-> "ok", usage |-> "present", text |-> CodeReply(CodeReturnsList)]})

\* usage.get(key) on `resp.usage_metadata or {}`
UsageGet(usage) == IF usage = "present" THEN PyInt(<<"7">>) ELSE PyNone

\* The caller's record, deep-copied into src_copy at the start of a run
SourceRecord == PyDict(<<"{'x': '5'}">>)

\* A caller's record that already satisfies the target schema
SourceConforming == PyDict(<<"{'x': 5}">>)

Sources == {SourceRecord, SourceConforming}

\* Two calls that run side by side are given different records
SourceOf(r) == IF r = 1 THEN SourceRecord ELSE SourceConforming

-----------------------------------------------------------------------------
(* Helpers both refiners use *)

\* re.sub(r"<think>.*?</think>\s*", "", response_raw, flags=re.DOTALL).strip():
\* every span from an opening tag to the first closing tag after it goes.
RECURSIVE strip_thinking_tags(_)
strip_thinking_tags(response_raw) ==
    IF response_raw = <<>> THEN <<>>
    ELSE IF Head(response_raw) = ThinkSegment
    THEN strip_thinking_tags(Tail(response_raw))
    ELSE IF /\ Head(response_raw) = ThinkOpen
            /\ \E i \in 2..Len(response_raw) : response_raw[i] = ThinkClose
    THEN LET close == CHOOSE i \in 2..Len(response_raw) :
                          /\ response_raw[i] = ThinkClose
                          /\ \A j \in 2..(i - 1) : response_raw[j] # ThinkClose
         IN  strip_thinking_tags(SubSeq(response_raw, close + 1, Len(response_raw)))
    ELSE <<Head(response_raw)>> \o strip_thinking_tags(Tail(response_raw))

\* What a called operation does: it returns a value or it raises.
Return(value) == [k |-> "return", value |-> value]
Raise(exc, msg) == [k |-> "raise", exc |-> exc, msg |-> msg]

\* langchain's parse_json_markdown(raw): the parsed value; it raises when the
\* text holds no JSON, and returns None on a mismatched closing character.
parse_json_markdown(raw) ==
    IF raw = ReplyGoodRecord THEN Return(PyDict(<<"{'x': 5}">>))
    ELSE IF raw = ReplyBadRecord THEN Return(PyDict(<<"{'x': 'five'}">>))
    ELSE IF raw = ReplyMismatched THEN Return(PyNone)
    ELSE Raise("JSONDecodeError", <<"Expecting value: line 1 column 1 (char 0)">>)

\* pydantic_object.model_validate(value): the validated model, or a
\* ValidationError whose errors() list is the message.
model_validate(value) ==
    IF value = PyDict(<<"{'x': 5}">>) THEN Return(value)
    ELSE IF value.t = "dict"
    THEN Raise("ValidationError",
               <<"[{\"type\": \"int_parsing\", \"loc\": [\"x\"]}]">>)
    ELSE Raise("ValidationError",
               <<"[{\"type\": \"model_type\", \"loc\": []}]">>)

-----------------------------------------------------------------------------
(* IterativeRefiner *)

\* Variant of init_max_attempts without the lower limit of one
init_max_attempts_unclamped(max_attempts) == max_attempts

\* self.max_attempts as the constructors of both refiners set it
init_max_attempts(max_attempts) == IF max_attempts > 1 THEN max_attempts ELSE 1

\* Variant of IR_payload that sends every request without a correction
IR_payload_without_correction(src_copy, correction_msg) ==
    [input_json |-> src_copy, correction_msg |-> <<>>]

\* The request payload of one attempt
IR_payload(src_copy, correction_msg) ==
    [input_json |-> src_copy, correction_msg |-> correction_msg]

IR_single_run(payload, attempt_no, inv) ==
    LET result == [attempt |-> attempt_no,
                   payload |-> payload,
                   llm_time |-> PyNone,
                   response_raw |-> PyNone,
                   response_parsed |-> PyNone,
                   error |-> FALSE,
                   error_msg |-> PyNone,
                   error_type |-> PyNone,
                   input_tokens |-> PyNone,
                   output_tokens |-> PyNone,
                   total_tokens |-> PyNone]
    IN  IF inv.llm = "raise"
        THEN [result EXCEPT !.error = TRUE,
                            !.error_msg = PyStr(LlmErrorText),
                            !.error_type = PyStr(<<"LLM_CALL_EXCEPTION">>)]
        ELSE
          LET raw == strip_thinking_tags(inv.text)
              called == [result EXCEPT !.input_tokens = UsageGet(inv.usage),
                                       !.output_tokens = UsageGet(inv.usage),
                                       !.total_tokens = UsageGet(inv.usage),
                                       !.llm_time = PyFloat(<<"elapsed">>),
                                       !.response_raw = PyStr(raw)]
              parsed == parse_json_markdown(raw)
              validated == model_validate(parsed.value)
          IN  IF parsed.k = "raise"
              THEN [called EXCEPT !.error = TRUE,
                                  !.error_msg = PyStr(parsed.msg),
                                  !.error_type = PyStr(<<"PARSING_EXCEPTION">>)]
              ELSE IF validated.k = "raise"
              THEN [called EXCEPT !.error = TRUE,
                                  !.error_msg = PyList(validated.msg),
                                  !.error_type = PyStr(<<"PYDANTIC_VALIDATION_ERROR">>)]
              ELSE [called EXCEPT !.response_parsed = validated.value]

\* Variant of IR_stop that compares the counter with > instead of >=
IR_stop_late(single, attempts, max_attempts) ==
    (~single.error) \/ attempts > max_attempts

\* Variant of IR_stop that leaves the loop on the counter alone
IR_stop_counter_only(single, attempts, max_attempts) ==
    attempts >= max_attempts

\* The loop's exit test after an attempt
IR_stop(single, attempts, max_attempts) ==
    (~single.error) \/ attempts >= max_attempts

\* Variant of IR_final_result that reports the number of attempts made
IR_final_result_counts_attempts(single, attempts, history) ==
    [result |-> single, refinement_attempts |-> attempts + 1, attempt_history |-> history]

\* Variant of IR_final_result built on the appended entry itself instead of a
\* copy, so that the last history entry receives the added key
IR_final_result_on_appended_entry(single, attempts, history) ==
    LET marked == [k \in DOMAIN single \cup {"refinement_attempts"} |->
                      IF k = "refinement_attempts" THEN attempts ELSE single[k]]
    IN  [result |-> single, refinement_attempts |-> attempts,
         attempt_history |-> [history EXCEPT ![Len(history)] = marked]]

\* The dictionary the run returns
IR_final_result(single, attempts, history) ==
    [result |-> single, refinement_attempts |-> attempts, attempt_history |-> history]

\* Variant of IR_correction_msg that keeps the earlier corrections in front
IR_correction_msg_cumulative(single) ==
    single.payload.correction_msg
    \o <<"The previous output was **invalid**.", "This is exactly what you returned:",
         FenceJson>>
    \o Str(single.response_raw)
    \o <<Fence, "Fix **ALL** issues and return **ONLY** one valid JSON object",
         "Error list:">>
    \o JsonDumps(single.error_msg)

\* The correction message for the next attempt
IR_correction_msg(single) ==
    <<"The previous output was **invalid**.", "This is exactly what you returned:",
      FenceJson>>
    \o Str(single.response_raw)
    \o <<Fence, "Fix **ALL** issues and return **ONLY** one valid JSON object",
         "Error list:">>
    \o JsonDumps(single.error_msg)

-----------------------------------------------------------------------------
(* FunctionRefiner *)

\* "<marker>" in text, for a marker that is a fence: every fence segment
\* contains the three backquotes, the python fence also contains its own text.
HasFencePython(text) == \E i \in 1..Len(text) : text[i] = FencePython
HasFence(text) == \E i \in 1..Len(text) : text[i] \in {Fence, FencePython, FenceJson}

\* text.split("<fence>python")[1].split("<fence>")[0].strip()
ExtractCode(text) ==
    LET first == CHOOSE i \in 1..Len(text) :
                     text[i] = FencePython /\ \A j \in 1..(i - 1) : text[j] # FencePython
        closers == {j \in (first + 1)..Len(text) : text[j] \in {Fence, FencePython, FenceJson}}
        last == IF closers = {} THEN Len(text) + 1
                ELSE CHOOSE j \in closers : \A m \in closers : j <= m
    IN  SubSeq(text, first + 1, last - 1)

\* exec(code, {}, local): the value local.get("map_raw_to_standard") afterwards,
\* or the exception the code raises while it is compiled and run.
exec_code(code) ==
    IF code = <<CodeSyntax>> THEN Raise("SyntaxError", <<"invalid syntax (<string>, line 1)">>)
    ELSE IF code = <<CodeImportFails>>
    THEN Raise("ModuleNotFoundError", <<"No module named 'nosuchmodule'">>)
    ELSE IF code = <<CodeNotCallable>> THEN Return(PyInt(<<"42">>))
    ELSE IF code \in {<<CodeRaises>>, <<CodeReturnsList>>, <<CodeBadRecord>>, <<CodeGoodRecord>>,
                      <<CodeIdentity>>, <<CodeMutatesInput>>}
    THEN Return([t |-> "function", v |-> code])
    ELSE Return(PyNone)

\* callable(fn)
Callable(fn) == fn.t = "function"

\* fn(payload["input_json"]) for a function exec_code returned
call_function(fn, input_json) ==
    IF fn.v = <<CodeRaises>> THEN Raise("KeyError", <<"'missing'">>)
    ELSE IF fn.v = <<CodeReturnsList>> THEN Return(PyList(<<"[">> \o input_json.v \o <<"]">>))
    ELSE IF fn.v = <<CodeBadRecord>> THEN Return(PyDict(<<"{'x': 'five'}">>))
    ELSE IF fn.v = <<CodeIdentity>> THEN Return(input_json)
    ELSE Return(PyDict(<<"{'x': 5}">>))

\* The object passed to fn after the call: the function is given the object
\* itself, so an assignment to one of its keys changes it in place.
input_after_call(fn, input_json) ==
    IF fn.v = <<CodeMutatesInput>> THEN PyDict(<<"{'x': 5}">>) ELSE input_json

\* Variant of FR_strip_raw in which raw holds the reply when line 121 reads it
FR_strip_raw_assigned == Return(PyNone)

\* Line 121 reads the local name raw, which no line of _single_run has
\* assigned before: Python raises UnboundLocalError there.
FR_strip_raw ==
    Raise("UnboundLocalError",
          <<"cannot access local variable 'raw' where it is not associated with a value">>)

\* _single_run from the code-block test (line 123) to its end
FR_after_strip(res, payload) ==
    IF ~HasFencePython(res.response_raw.v) \/ ~HasFence(res.response_raw.v)
    THEN Return([res EXCEPT !.error = TRUE,
                            !.error_msg = PyStr(<<"No Python code block found.">>),
                            !.error_type = PyStr(<<"NO_CODE_BLOCK">>)])
    ELSE
      LET code == ExtractCode(res.response_raw.v)
          coded == [res EXCEPT !.response_parsed = PyStr(code)]
          local == exec_code(code)
          fn == local.value
          output == call_function(fn, payload.input_json)
          ran == [coded EXCEPT !.function_result = output.value]
          validated == model_validate(output.value)
      IN  IF local.k = "raise"
          THEN IF local.exc = "SyntaxError"
               THEN Return([coded EXCEPT !.error = TRUE,
                                         !.error_msg = PyStr(local.msg),
                                         !.error_type = PyStr(<<"FUNCTION_SYNTAX_ERROR">>)])
               ELSE local
          ELSE IF fn.t = "None" \/ ~Callable(fn)
          THEN Return([coded EXCEPT
                          !.error = TRUE,
                          !.error_msg = PyStr(<<"map_raw_to_standard() not found or not callable.">>),
                          !.error_type = PyStr(<<"FUNCTION_NOT_FOUND">>)])
          ELSE IF output.k = "raise"
          THEN Return([coded EXCEPT !.error = TRUE,
                                    !.error_msg = PyStr(output.msg),
                                    !.error_type = PyStr(<<"FUNCTION_EXECUTION_EXCEPTION">>)])
          ELSE IF output.value.t # "dict"
          THEN Return([ran EXCEPT !.error = TRUE,
                                  !.error_msg = PyStr(<<"Function must return a dict.">>),
                                  !.error_type = PyStr(<<"FUNCTION_RETURN_TYPE">>)])
          ELSE IF validated.k = "raise"
          THEN Return([ran EXCEPT !.error = TRUE,
                                  !.error_msg = PyList(validated.msg),
                                  !.error_type = PyStr(<<"PYDANTIC_VALIDATION_ERROR">>)])
          ELSE Return(ran)

FR_single_run(payload, attempt_no, inv) ==
    LET res == [attempt |-> attempt_no,
                payload |-> payload,
                llm_time |-> PyNone,
                response_raw |-> PyNone,
                response_parsed |-> PyNone,
                function_result |-> PyNone,
                error |-> FALSE,
                error_msg |-> PyNone,
                error_type |-> PyNone,
                input_tokens |-> PyNone,
                output_tokens |-> PyNone,
                total_tokens |-> PyNone]
    IN  IF inv.llm = "raise"
        THEN Return([res EXCEPT !.error = TRUE,
                                !.error_msg = PyStr(LlmErrorText),
                                !.error_type = PyStr(<<"LLM_CALL_EXCEPTION">>)])
        ELSE IF inv.usage = "absent"
        THEN \* token_usage is None: subscripting it raises TypeError inside the try
             Return([res EXCEPT !.error = TRUE,
                                !.error_msg = PyStr(<<"'NoneType' object is not subscriptable">>),
                                !.error_type = PyStr(<<"LLM_CALL_EXCEPTION">>)])
        ELSE
          LET called == [res EXCEPT !.input_tokens = UsageGet(inv.usage),
                                    !.output_tokens = UsageGet(inv.usage),
                                    !.total_tokens = UsageGet(inv.usage),
                                    !.llm_time = PyFloat(<<"elapsed">>),
                                    !.response_raw = PyStr(inv.text)]
              raw == FR_strip_raw
          IN  IF raw.k = "raise" THEN raw ELSE FR_after_strip(called, payload)

\* payload["input_json"] after _single_run: the generated function is called
\* with that object when the run gets as far as line 152.
FR_input_after(inv, input_json) ==
    IF /\ inv.llm = "ok"
       /\ inv.usage = "present"
       /\ FR_strip_raw.k # "raise"
       /\ HasFencePython(inv.text)
       /\ exec_code(ExtractCode(inv.text)).k = "return"
       /\ Callable(exec_code(ExtractCode(inv.text)).value)
    THEN input_after_call(exec_code(ExtractCode(inv.text)).value, input_json)
    ELSE input_json

\* The error kinds after which the loop goes on to another attempt
FR_retryable ==
    {PyStr(<<k>>) : k \in {"FUNCTION_SYNTAX_ERROR", "FUNCTION_NOT_FOUND",
                           "FUNCTION_NOT_CALLABLE", "FUNCTION_EXECUTION_EXCEPTION",
                           "PYDANTIC_VALIDATION_ERROR", "NO_CODE_BLOCK",
                           "PARSING_EXCEPTION"}}

FR_fatal(single) == single.error_type \notin FR_retryable

\* The loop's exit test after a failed attempt
FR_stop(single, attempts, max_attempts) ==
    FR_fatal(single) \/ attempts >= max_attempts

FR_final_result(single, attempts, history) ==
    [result |-> single, refinement_attempts |-> attempts, attempt_history |-> history]

FR_build_correction_msg(failed_run) ==
    LET code == Str(failed_run.response_parsed)
        err == IF failed_run.error_msg.t # "str"
               THEN JsonDumps(failed_run.error_msg)
               ELSE failed_run.error_msg.v
    IN  <<"The previous code was **invalid**.", FencePython>>
        \o code
        \o <<Fence,
             "Please fix *all* problems and return **only one** Python code block",
             "that defines a *callable* function **map_raw_to_standard(raw: dict) -> dict**",
             "and nothing else", "Errors you must correct:">>
        \o err

-----------------------------------------------------------------------------
(* LlmMapping *)

\* Most calls of one LlmMapping instance that a behaviour follows.
MaxMapperCalls == 2

PromptTypes == {"few_shot", "schema_driven", "mapping_function"}

\* LlmMapping.__strip_thinking_tags: the same substitution as the refiners'
LM_strip_thinking_tags(response_raw) == strip_thinking_tags(response_raw)

\* response_raw.endswith("<fence>")
EndsWithFence(text) == text # <<>> /\ text[Len(text)] = Fence

\* The invocations a mapper of the given prompt type meets
MapperInvocations(prompt) ==
    {InvokeRaises} \cup
    InvokeReplies(IF prompt = "mapping_function" THEN FunctionReplies ELSE DirectReplies)

LM_process_direct_mapping(inv) ==
    LET result == [llm_time |-> PyNone,
                   response_raw |-> PyNone,
                   response_parsed |-> PyNone,
                   error |-> FALSE,
                   error_msg |-> PyNone,
                   error_type |-> PyNone,
                   input_tokens |-> PyNone,
                   output_tokens |-> PyNone,
                   total_tokens |-> PyNone]
    IN  IF inv.llm = "raise"
        THEN [result EXCEPT !.error = TRUE,
                            !.error_msg = PyStr(LlmErrorText),
                            !.error_type = PyStr(<<"LLM_CALL_EXCEPTION">>)]
        ELSE IF inv.usage = "absent"
        THEN \* token_usage is None: subscripting it raises TypeError inside the try
             [result EXCEPT !.error = TRUE,
                            !.error_msg = PyStr(<<"'NoneType' object is not subscriptable">>),
                            !.error_type = PyStr(<<"LLM_CALL_EXCEPTION">>)]
        ELSE
          LET called == [result EXCEPT !.input_tokens = UsageGet(inv.usage),
                                       !.output_tokens = UsageGet(inv.usage),
                                       !.total_tokens = UsageGet(inv.usage),
                                       !.llm_time = PyFloat(<<"elapsed">>),
                                       !.response_raw = PyStr(inv.text)]
              response_raw == LM_strip_thinking_tags(inv.text)
              parsed == parse_json_markdown(response_raw)
              validated == model_validate(parsed.value)
          IN  IF parsed.k = "raise"
              THEN [called EXCEPT !.error = TRUE,
                                  !.error_msg = PyStr(parsed.msg),
                                  !.error_type = PyStr(<<"PARSING_EXCEPTION">>)]
              ELSE IF parsed.value.t = "None"
              THEN [called EXCEPT
                       !.error = TRUE,
                       !.error_msg = PyStr(<<"JSON String has a mismatched closing character.">>),
                       !.error_type = PyStr(<<"PARSING_EXCEPTION">>)]
              ELSE IF validated.k = "raise"
              THEN [called EXCEPT !.error = TRUE,
                                  !.error_msg = PyList(validated.msg),
                                  !.error_type = PyStr(<<"PYDANTIC_VALIDATION_ERROR">>)]
              ELSE [called EXCEPT !.response_parsed = validated.value]

\* Variant of LM_code_str that searches the reply with its thinking part
LM_code_str_unstripped(text) == ExtractCode(text)

\* The code __process_mapping_function extracts from a reply (line 227)
LM_code_str(text) == ExtractCode(LM_strip_thinking_tags(text))

LM_process_mapping_function(inv, src) ==
    LET result == [llm_time |-> PyNone,
                   response_raw |-> PyNone,
                   response_parsed |-> PyNone,
                   function_result |-> PyNone,
                   error |-> FALSE,
                   error_msg |-> PyNone,
                   error_type |-> PyNone,
                   input_tokens |-> PyNone,
                   output_tokens |-> PyNone,
                   total_tokens |-> PyNone]
    IN  IF inv.llm = "raise"
        THEN Return([result EXCEPT !.error = TRUE,
                                   !.error_msg = PyStr(LlmErrorText),
                                   !.error_type = PyStr(<<"LLM_CALL_EXCEPTION">>)])
        ELSE IF inv.usage = "absent"
        THEN Return([result EXCEPT
                        !.error = TRUE,
                        !.error_msg = PyStr(<<"'NoneType' object is not subscriptable">>),
                        !.error_type = PyStr(<<"LLM_CALL_EXCEPTION">>)])
        ELSE
          LET called == [result EXCEPT !.input_tokens = UsageGet(inv.usage),
                                       !.output_tokens = UsageGet(inv.usage),
                                       !.total_tokens = UsageGet(inv.usage),
                                       !.llm_time = PyFloat(<<"elapsed">>),
                                       !.response_raw = PyStr(inv.text)]
              response_raw == LM_strip_thinking_tags(inv.text)
              code_str == LM_code_str(inv.text)
              local_vars == exec_code(code_str)
              map_raw_to_standard == local_vars.value
              coded == [called EXCEPT !.response_parsed = PyStr(code_str)]
              output == call_function(map_raw_to_standard, src)
              ran == [coded EXCEPT !.function_result = output.value]
              validated == model_validate(output.value)
          IN  IF ~HasFencePython(response_raw) \/ ~EndsWithFence(response_raw)
              THEN Return([called EXCEPT
                              !.error = TRUE,
                              !.error_msg = PyStr(<<"No code block found in the response.">>),
                              !.error_type = PyStr(<<"NO_CODE_BLOCK">>)])
              ELSE IF local_vars.k = "raise"
              THEN IF local_vars.exc = "SyntaxError"
                   THEN Return([called EXCEPT !.error = TRUE,
                                              !.error_msg = PyStr(local_vars.msg),
                                              !.error_type = PyStr(<<"FUNCTION_SYNTAX_ERROR">>)])
                   ELSE local_vars
              ELSE IF map_raw_to_standard.t = "None"
              THEN Return([called EXCEPT
                              !.error = TRUE,
                              !.error_msg = PyStr(<<"map_raw_to_standard function not found in the response.">>),
                              !.error_type = PyStr(<<"FUNCTION_NOT_FOUND">>)])
              ELSE IF ~Callable(map_raw_to_standard)
              THEN Return([called EXCEPT
                              !.error = TRUE,
                              !.error_msg = PyStr(<<"map_raw_to_standard function not found in the response.">>),
                              !.error_type = PyStr(<<"FUNCTION_NOT_CALLABLE">>)])
              ELSE IF output.k = "raise"
              THEN Return([coded EXCEPT !.error = TRUE,
                                        !.error_msg = PyStr(output.msg),
                                        !.error_type = PyStr(<<"FUNCTION_EXECUTION_EXCEPTION">>)])
              ELSE IF output.value.t # "dict"
              THEN Return([ran EXCEPT
                              !.error = TRUE,
                              !.error_msg = PyStr(<<"Function did not return a dictionary.">>),
                              !.error_type = PyStr(<<"FUNCTION_RETURN_TYPE">>)])
              ELSE IF validated.k = "raise"
              THEN Return([ran EXCEPT !.error = TRUE,
                                      !.error_msg = PyList(validated.msg),
                                      !.error_type = PyStr(<<"PYDANTIC_VALIDATION_ERROR">>)])
              ELSE Return(ran)

\* The caller's source object after __process_mapping_function: the generated
\* function is called with that object when the call gets as far as line 261.
LM_source_after(inv, src) ==
    IF /\ inv.llm = "ok"
       /\ inv.usage = "present"
       /\ HasFencePython(LM_strip_thinking_tags(inv.text))
       /\ EndsWithFence(LM_strip_thinking_tags(inv.text))
       /\ exec_code(LM_code_str(inv.text)).k = "return"
       /\ Callable(exec_code(LM_code_str(inv.text)).value)
    THEN input_after_call(exec_code(LM_code_str(inv.text)).value, src)
    ELSE src

-----------------------------------------------------------------------------
(* State *)

VARIABLES
    variant,         \* which refiner wraps the mapper: "iterative", "function" or "none"
    configured,      \* the max_attempts argument the caller passed to __init__
    max_attempts,    \* self.max_attempts
    pc,              \* per call: "idle", "loop" (top of while True), "returned", "raised"
    source,          \* per call: the caller's object passed as source
    src_copy,        \* per call: the local src_copy
    attempts,        \* per call: the local attempts
    correction_msg,  \* per call: the local correction_msg
    history,         \* per call: the local history
    final_result,    \* per call: <<>> or <<the returned dictionary>>
    raised,          \* per call: <<>> or <<the exception that left __call__>>
    invoked,         \* per call: the chain invocations its _single_run calls made
    prompt_type,     \* LlmMapping: self.prompt_type
    lm_given,        \* LlmMapping: the source of each call, as the caller passed it
    lm_source,       \* LlmMapping: the caller's source object of each call, after the call
    lm_invoked,      \* LlmMapping: the chain invocation of each call
    lm_results,      \* LlmMapping: what each call of the mapper returned or raised
    args,            \* RunPipeline: self.args (model_provider, max_refinement_attempts, blockchain)
    phase,           \* RunPipeline: where the process is (constructing, running, ended)
    llm_mapping,     \* RunPipeline: the class of self.llm_mapping, "unset" before it is assigned
    dataset_idx,     \* MappingDataset: self.__idx, -1 while there is no dataset
    at,              \* __run_direct_mapping: the statement of the loop body that runs next
    sample,          \* __run_direct_mapping: index, machine_id and target date of the loop
    mapping_result,  \* __run_direct_mapping: the local mapping_result
    raw_results,     \* the lines of raw_results/*.jsonl, in the order they were written
    last_index,      \* the number in last_index.txt, -1 while the file does not exist
    chain_calls,     \* MetricCaller: the contract invocations made, in order
    model_calls,     \* the sample index of every chain.invoke the run has made
    waited,          \* MetricCaller: the locals of the last wait_for_transaction
    failure,         \* the exception that ended the process, <<>> if none
    resumed          \* the process was created by from_run_dir

mapper == <<prompt_type, lm_given, lm_source, lm_invoked, lm_results>>

pipeline == <<args, phase, llm_mapping, dataset_idx, at, sample, mapping_result, raw_results,
              last_index, chain_calls, model_calls, waited, failure, resumed>>

vars == <<variant, configured, max_attempts, pc, source, src_copy, attempts, correction_msg,
          history, final_result, raised, invoked, mapper, pipeline>>

instance == <<variant, configured, max_attempts>>

\* No RunPipeline object exists: a refiner or a mapper is used on its own.
NoPipeline ==
    /\ args = [model_provider |-> "ollama", max_refinement_attempts |-> 0, blockchain |-> FALSE]
    /\ phase = "absent"
    /\ llm_mapping = "unset"
    /\ dataset_idx = -1
    /\ at = "for"
    /\ sample = <<>>
    /\ mapping_result = <<>>
    /\ raw_results = <<>>
    /\ last_index = -1
    /\ chain_calls = <<>>
    /\ model_calls = <<>>
    /\ waited = <<>>
    /\ failure = <<>>
    /\ resumed = FALSE

\* A refiner was constructed with some max_attempts; no call is in flight.
Init ==
    /\ variant \in {"iterative", "function"}
    /\ configured \in 0..MaxConfigured
    /\ max_attempts = init_max_attempts(configured)
    /\ pc = [r \in Runs |-> "idle"]
    /\ source = [r \in Runs |-> PyNone]
    /\ src_copy = [r \in Runs |-> PyNone]
    /\ attempts = [r \in Runs |-> 0]
    /\ correction_msg = [r \in Runs |-> <<>>]
    /\ history = [r \in Runs |-> <<>>]
    /\ final_result = [r \in Runs |-> <<>>]
    /\ raised = [r \in Runs |-> <<>>]
    /\ invoked = [r \in Runs |-> <<>>]
    /\ prompt_type = IF variant = "iterative" THEN "schema_driven" ELSE "mapping_function"
    /\ lm_given = <<>>
    /\ lm_source = <<>>
    /\ lm_invoked = <<>>
    /\ lm_results = <<>>
    /\ NoPipeline

\* Entry of __call__(source): the locals before the loop
Call(r, sources) ==
    /\ pc[r] = "idle"
    /\ pc' = [pc EXCEPT ![r] = "loop"]
    /\ attempts' = [attempts EXCEPT ![r] = 0]
    /\ correction_msg' = [correction_msg EXCEPT ![r] = <<>>]
    /\ \E src \in sources :
         /\ source' = [source EXCEPT ![r] = src]
         /\ src_copy' = [src_copy EXCEPT ![r] = src]
    /\ history' = [history EXCEPT ![r] = <<>>]
    /\ UNCHANGED <<instance, final_result, raised, invoked, mapper, pipeline>>

\* Variant of IR_Iterate that keeps the attempt counter on the instance, so
\* that every call in flight counts on the same number
IR_Iterate_shared_counter(r, invocations) ==
    /\ variant = "iterative"
    /\ pc[r] = "loop"
    /\ \E inv \in invocations :
         LET payload == IR_payload(src_copy[r], correction_msg[r])
             single == IR_single_run(payload, attempts[1], inv)
             hist == Append(history[r], single)
         IN  /\ invoked' = [invoked EXCEPT ![r] = Append(@, inv)]
             /\ history' = [history EXCEPT ![r] = hist]
             /\ IF IR_stop(single, attempts[1], max_attempts)
                THEN /\ final_result' = [final_result EXCEPT
                                            ![r] = <<IR_final_result(single, attempts[1], hist)>>]
                     /\ pc' = [pc EXCEPT ![r] = "returned"]
                     /\ UNCHANGED <<attempts, correction_msg>>
                ELSE /\ attempts' = [attempts EXCEPT ![1] = @ + 1]
                     /\ correction_msg' = [correction_msg EXCEPT ![r] = IR_correction_msg(single)]
                     /\ UNCHANGED <<final_result, pc>>
    /\ UNCHANGED <<instance, source, src_copy, raised, mapper, pipeline>>

\* Variant of IR_Iterate that puts the newest attempt in front of the history
IR_Iterate_newest_first(r, invocations) ==
    /\ variant = "iterative"
    /\ pc[r] = "loop"
    /\ \E inv \in invocations :
         LET payload == IR_payload(src_copy[r], correction_msg[r])
             single == IR_single_run(payload, attempts[r], inv)
             hist == <<single>> \o history[r]
         IN  /\ invoked' = [invoked EXCEPT ![r] = Append(@, inv)]
             /\ history' = [history EXCEPT ![r] = hist]
             /\ IF IR_stop(single, attempts[r], max_attempts)
                THEN /\ final_result' = [final_result EXCEPT
                                            ![r] = <<IR_final_result(single, attempts[r], hist)>>]
                     /\ pc' = [pc EXCEPT ![r] = "returned"]
                     /\ UNCHANGED <<attempts, correction_msg>>
                ELSE /\ attempts' = [attempts EXCEPT ![r] = @ + 1]
                     /\ correction_msg' = [correction_msg EXCEPT ![r] = IR_correction_msg(single)]
                     /\ UNCHANGED <<final_result, pc>>
    /\ UNCHANGED <<instance, source, src_copy, raised, mapper, pipeline>>

\* One pass of IterativeRefiner.__call__'s while loop
IR_Iterate(r, invocations) ==
    /\ variant = "iterative"
    /\ pc[r] = "loop"
    /\ \E inv \in invocations :
         LET payload == IR_payload(src_copy[r], correction_msg[r])
             single == IR_single_run(payload, attempts[r], inv)
             hist == Append(history[r], single)
         IN  /\ invoked' = [invoked EXCEPT ![r] = Append(@, inv)]
             /\ history' = [history EXCEPT ![r] = hist]
             /\ IF IR_stop(single, attempts[r], max_attempts)
                THEN /\ final_result' = [final_result EXCEPT
                                            ![r] = <<IR_final_result(single, attempts[r], hist)>>]
                     /\ pc' = [pc EXCEPT ![r] = "returned"]
                     /\ UNCHANGED <<attempts, correction_msg>>
                ELSE /\ attempts' = [attempts EXCEPT ![r] = @ + 1]
                     /\ correction_msg' = [correction_msg EXCEPT ![r] = IR_correction_msg(single)]
                     /\ UNCHANGED <<final_result, pc>>
    /\ UNCHANGED <<instance, source, src_copy, raised, mapper, pipeline>>

\* One pass of FunctionRefiner.__call__'s while loop
FR_Iterate(r, invocations) ==
    /\ variant = "function"
    /\ pc[r] = "loop"
    /\ \E inv \in invocations :
         LET payload == IR_payload(src_copy[r], correction_msg[r])
             out == FR_single_run(payload, attempts[r], inv)
             after == FR_input_after(inv, src_copy[r])
             \* payload holds src_copy itself; the copy for the history is
             \* taken after _single_run has returned
             single == [out.value EXCEPT !.payload.input_json = after]
             hist == Append(history[r], single)
         IN  /\ invoked' = [invoked EXCEPT ![r] = Append(@, inv)]
             /\ src_copy' = [src_copy EXCEPT ![r] = after]
             /\ IF out.k = "raise"
                THEN /\ raised' = [raised EXCEPT ![r] = <<out>>]
                     /\ pc' = [pc EXCEPT ![r] = "raised"]
                     /\ UNCHANGED <<history, final_result, attempts, correction_msg>>
                ELSE /\ history' = [history EXCEPT ![r] = hist]
                     /\ raised' = raised
                     /\ IF (~single.error) \/ FR_stop(single, attempts[r], max_attempts)
                        THEN /\ final_result' = [final_result EXCEPT
                                    ![r] = <<FR_final_result(single, attempts[r], hist)>>]
                             /\ pc' = [pc EXCEPT ![r] = "returned"]
                             /\ UNCHANGED <<attempts, correction_msg>>
                        ELSE /\ attempts' = [attempts EXCEPT ![r] = @ + 1]
                             /\ correction_msg' = [correction_msg EXCEPT
                                    ![r] = FR_build_correction_msg(single)]
                             /\ UNCHANGED <<final_result, pc>>
    /\ UNCHANGED <<instance, source, mapper, pipeline>>

\* One call of the refiner at a time
Next ==
    \/ Call(1, Sources)
    \/ IR_Iterate(1, Invocations(variant))
    \/ FR_Iterate(1, Invocations(variant))

Spec == Init /\ [][Next]_vars

\* Two calls of the same refiner instance, each with its own locals,
\* interleaved at every pass of their loops
NextPair ==
    \E r \in Runs :
        \/ Call(r, {SourceOf(r)})
        \/ IR_Iterate(r, PairInvocations(variant))
        \/ FR_Iterate(r, PairInvocations(variant))

SpecPair == Init /\ [][NextPair]_vars

\* A mapper was constructed with some prompt type and no refiner wraps it.
InitMapper ==
    /\ variant = "none"
    /\ configured = 0
    /\ max_attempts = 0
    /\ pc = [r \in Runs |-> "idle"]
    /\ source = [r \in Runs |-> PyNone]
    /\ src_copy = [r \in Runs |-> PyNone]
    /\ attempts = [r \in Runs |-> 0]
    /\ correction_msg = [r \in Runs |-> <<>>]
    /\ history = [r \in Runs |-> <<>>]
    /\ final_result = [r \in Runs |-> <<>>]
    /\ raised = [r \in Runs |-> <<>>]
    /\ invoked = [r \in Runs |-> <<>>]
    /\ prompt_type \in PromptTypes
    /\ lm_given = <<>>
    /\ lm_source = <<>>
    /\ lm_invoked = <<>>
    /\ lm_results = <<>>
    /\ NoPipeline

refiner == <<variant, configured, max_attempts, pc, source, src_copy, attempts, correction_msg,
             history, final_result, raised, invoked>>

\* LlmMapping.__call__ with a few_shot or schema_driven prompt
LM_DirectMapping ==
    /\ variant = "none"
    /\ prompt_type # "mapping_function"
    /\ Len(lm_results) < MaxMapperCalls
    /\ \E src \in Sources, inv \in MapperInvocations(prompt_type) :
         /\ lm_given' = Append(lm_given, src)
         /\ lm_source' = Append(lm_source, src)
         /\ lm_invoked' = Append(lm_invoked, inv)
         /\ lm_results' = Append(lm_results, Return(LM_process_direct_mapping(inv)))
    /\ UNCHANGED <<refiner, prompt_type, pipeline>>

\* LlmMapping.__call__ with the mapping_function prompt
LM_MappingFunction ==
    /\ variant = "none"
    /\ prompt_type = "mapping_function"
    /\ Len(lm_results) < MaxMapperCalls
    /\ \E src \in Sources, inv \in MapperInvocations(prompt_type) :
         /\ lm_given' = Append(lm_given, src)
         /\ lm_source' = Append(lm_source, LM_source_after(inv, src))
         /\ lm_invoked' = Append(lm_invoked, inv)
         /\ lm_results' = Append(lm_results, LM_process_mapping_function(inv, src))
    /\ UNCHANGED <<refiner, prompt_type, pipeline>>

\* One call of the mapper after another, as the pipeline's loops make them
NextMapper == LM_DirectMapping \/ LM_MappingFunction

SpecMapper == InitMapper /\ [][NextMapper]_vars

-----------------------------------------------------------------------------
(* MappingDataset: src/src/dataset/mapping_dataset.py *)

\* len(self.machine_ids) and the samples each machine has in the dataset
MachineCount == 2
SamplesPerMachine == 2

\* __len__
dataset_len == MachineCount * SamplesPerMachine

\* self.machine_ids[i]: the machines are numbered 1..MachineCount as M001.. are
machine_ids(i) == i + 1

\* target[machine_id][sample_idx]["date"]: every machine has one sample per
\* day, in the order of the days, so the date of a sample is its position
target_date(machine_id, sample_idx) == sample_idx

\* __next__: the sample at self.__idx, or StopIteration
dataset_next(idx) ==
    IF idx >= dataset_len
    THEN Raise("StopIteration", <<>>)
    ELSE LET machine_id == machine_ids(idx % MachineCount)
             sample_idx == idx \div MachineCount
         IN  Return([index |-> idx,
                     machine_id |-> machine_id,
                     sample_idx |-> sample_idx,
                     date |-> target_date(machine_id, sample_idx)])

\* set_index(index): the new self.__idx, or IndexError
set_index(index) ==
    IF index < 0 \/ index >= dataset_len
    THEN Raise("IndexError", <<"Index out of range.">>)
    ELSE Return(index)

\* Variant of is_last_machine that looks at the index as it was before
\* __next__ advanced it
is_last_machine_before_advance(idx) == (idx - 1) % MachineCount = 0

\* is_last_machine, asked after __next__ has advanced self.__idx
is_last_machine(idx) == idx % MachineCount = 0

-----------------------------------------------------------------------------
(* MetricCaller: src/src/blockchain/WavesConnector/metric_caller.py *)

\* wait_for_transaction's default timeout and interval, in seconds
WaitTimeout == 60
WaitInterval == 1

\* What the node answers to the polls of one transaction: the transaction
\* is in a block from poll number `at` on ("confirmed"), never within reach
\* ("never"), or the request of poll number `at` fails to connect
\* ("unreachable"); until then the node knows no such transaction.
Nodes ==
    {[kind |-> "confirmed", at |-> 1], [kind |-> "confirmed", at |-> 3],
     [kind |-> "unreachable", at |-> 2], [kind |-> "never", at |-> 0]}

\* get_json_data for poll number n: the transaction info, None for a 404, or
\* UnboundLocalError when requests.get raised before response was bound
get_json_data(node, n) ==
    IF node.kind = "unreachable" /\ n = node.at
    THEN Raise("UnboundLocalError",
               <<"cannot access local variable 'response' where it is not associated with a value">>)
    ELSE IF node.kind = "confirmed" /\ n >= node.at
    THEN Return(PyDict(<<"height">>))
    ELSE Return(PyNone)

\* wait_for_transaction before its loop: nothing polled, no time elapsed
wait_start(node) == [node |-> node, elapsed |-> 0, polls |-> 0, returned |-> <<>>]

\* One test of the while condition of wait_for_transaction and, if it holds,
\* one pass of the body: the poll raises, or returns the info that carries a
\* height, or the loop sleeps; if it does not hold, the function returns None
wait_step(w, timeout, interval) ==
    IF w.elapsed < timeout
    THEN LET tx_info == get_json_data(w.node, w.polls + 1)
         IN  IF tx_info.k = "raise"
             THEN [w EXCEPT !.polls = w.polls + 1, !.returned = <<tx_info>>]
             ELSE IF tx_info.value.t # "None"
             THEN [w EXCEPT !.polls = w.polls + 1, !.returned = <<tx_info>>]
             ELSE [w EXCEPT !.polls = w.polls + 1, !.elapsed = w.elapsed + interval]
    ELSE [w EXCEPT !.returned = <<Return(PyNone)>>]

-----------------------------------------------------------------------------
(* RunPipeline: src/src/run_pipeline.py *)

\* The parameters LlmMapping.__init__ takes besides self, and the positional
\* arguments __init_llm_mapping passes to it
LlmMapping_parameters == 6
LlmMapping_arguments == 9

\* LlmMapping(...) as __init_llm_mapping calls it
LlmMapping_call ==
    IF LlmMapping_arguments > LlmMapping_parameters
    THEN Raise("TypeError",
               <<"LlmMapping.__init__() takes 7 positional arguments but 10 were given">>)
    ELSE Return("LlmMapping")

\* Variant of wrap_mapper that wraps the mapper whatever max_attempts is
wrap_mapper_always(a) ==
    IF a.model_provider # "ollama"
    THEN Raise("ValueError", <<"Iterative refinement is intended for Ollama models only.">>)
    ELSE Return("IterativeRefiner")

\* __init_llm_mapping after the mapper is constructed: what self.llm_mapping
\* is in the end, or the ValueError
wrap_mapper(a) ==
    IF a.max_refinement_attempts <= 0
    THEN Return("LlmMapping")
    ELSE IF a.model_provider # "ollama"
    THEN Raise("ValueError", <<"Iterative refinement is intended for Ollama models only.">>)
    ELSE Return("IterativeRefiner")

\* __init_llm_mapping
init_llm_mapping(a) ==
    IF LlmMapping_call.k = "raise" THEN LlmMapping_call ELSE wrap_mapper(a)

\* self.llm_mapping(template_vars, source): an IterativeRefiner takes the
\* source alone, an LlmMapping maps the sample with its direct prompt
llm_mapping_call(mapping, inv) ==
    IF mapping = "IterativeRefiner"
    THEN Raise("TypeError",
               <<"IterativeRefiner.__call__() takes 2 positional arguments but 3 were given">>)
    ELSE Return(LM_process_direct_mapping(inv))

\* Variant of push_wanted that looks at the flag alone
push_wanted_by_flag(result, blockchain) == blockchain

\* The condition of the push: parsed is not None and self.args.blockchain
push_wanted(result, blockchain) ==
    result.response_parsed.t # "None" /\ blockchain

\* __push_to_blockchain's return statement: tx["id"], tx_info["height"]
push_to_blockchain_return(tx_info) ==
    IF tx_info.t = "None"
    THEN Raise("TypeError", <<"'NoneType' object is not subscriptable">>)
    ELSE Return(<<"id", "height">>)

\* Variant of resume_index that resumes behind the sample after the saved one
resume_index_skipping(saved) == saved + 2

\* from_run_dir: the index given to set_index
resume_index(saved) == saved + 1

\* The object run() is called on, or the arguments of a process that is about
\* to construct one. The loop of __run_direct_mapping is described for an
\* object whose self.llm_mapping holds what lines 87-95 of __init_llm_mapping
\* leave there; the construction itself is the pair of actions
\* P_init_dataset and P_init_llm_mapping.
InitPipeline ==
    /\ variant = "none"
    /\ configured = 0
    /\ max_attempts = 0
    /\ pc = [r \in Runs |-> "idle"]
    /\ source = [r \in Runs |-> PyNone]
    /\ src_copy = [r \in Runs |-> PyNone]
    /\ attempts = [r \in Runs |-> 0]
    /\ correction_msg = [r \in Runs |-> <<>>]
    /\ history = [r \in Runs |-> <<>>]
    /\ final_result = [r \in Runs |-> <<>>]
    /\ raised = [r \in Runs |-> <<>>]
    /\ invoked = [r \in Runs |-> <<>>]
    /\ prompt_type = "schema_driven"
    /\ lm_given = <<>>
    /\ lm_source = <<>>
    /\ lm_invoked = <<>>
    /\ lm_results = <<>>
    /\ args \in [model_provider : {"openai", "ollama"},
                 max_refinement_attempts : 0..1,
                 blockchain : BOOLEAN]
    /\ \/ /\ phase = "new"
          /\ llm_mapping = "unset"
          /\ dataset_idx = -1
       \/ /\ phase = "ready"
          /\ wrap_mapper(args).k = "return"
          /\ llm_mapping = wrap_mapper(args).value
          /\ dataset_idx = 0
    /\ at = "for"
    /\ sample = <<>>
    /\ mapping_result = <<>>
    /\ raw_results = <<>>
    /\ last_index = -1
    /\ chain_calls = <<>>
    /\ model_calls = <<>>
    /\ waited = <<>>
    /\ failure = <<>>
    /\ resumed = FALSE

files == <<raw_results, last_index>>

\* The exception exc ends the process
Fails(exc) ==
    /\ phase' = "failed"
    /\ failure' = <<exc>>

\* RunPipeline.__init__ up to __init_dataset
P_init_dataset ==
    /\ phase = "new"
    /\ phase' = "init_llm_mapping"
    /\ dataset_idx' = 0
    /\ UNCHANGED <<refiner, mapper, args, llm_mapping, at, sample, mapping_result, files,
                   chain_calls, model_calls, waited, failure, resumed>>

\* __init_llm_mapping, called by __init__ and by from_run_dir
P_init_llm_mapping ==
    /\ phase = "init_llm_mapping"
    /\ LET made == init_llm_mapping(args)
       IN  IF made.k = "raise"
           THEN Fails(made) /\ UNCHANGED llm_mapping
           ELSE phase' = "ready" /\ llm_mapping' = made.value /\ UNCHANGED failure
    /\ UNCHANGED <<refiner, mapper, args, dataset_idx, at, sample, mapping_result, files,
                   chain_calls, model_calls, waited, resumed>>

\* for index, machine_id, source, target in self.dataset
P_Next ==
    /\ phase = "ready"
    /\ at = "for"
    /\ LET item == dataset_next(dataset_idx)
       IN  IF item.k = "raise"
           THEN phase' = "done" /\ UNCHANGED <<dataset_idx, sample, at>>
           ELSE /\ sample' = <<item.value>>
                /\ dataset_idx' = dataset_idx + 1
                /\ at' = "map"
                /\ UNCHANGED phase
    /\ UNCHANGED <<refiner, mapper, args, llm_mapping, mapping_result, files,
                   chain_calls, model_calls, waited, failure, resumed>>

\* mapping_result = self.llm_mapping(template_vars, source) and the test
\* that decides about the push
P_Map ==
    /\ phase = "ready"
    /\ at = "map"
    /\ \E inv \in MapperInvocations(prompt_type) :
         LET got == llm_mapping_call(llm_mapping, inv)
         IN  IF got.k = "raise"
             THEN Fails(got) /\ UNCHANGED <<mapping_result, model_calls, at>>
             ELSE /\ mapping_result' = <<got.value>>
                  /\ model_calls' = Append(model_calls, sample[1].index)
                  /\ at' = IF push_wanted(got.value, args.blockchain) THEN "push" ELSE "write"
                  /\ UNCHANGED <<phase, failure>>
    /\ UNCHANGED <<refiner, mapper, args, llm_mapping, dataset_idx, sample, files,
                   chain_calls, waited, resumed>>

\* self.__push_to_blockchain(machine_id, parsed): call_store_metrics and the
\* entry of wait_for_transaction
P_Push ==
    /\ phase = "ready"
    /\ at = "push"
    /\ chain_calls' = Append(chain_calls, [fn |-> "storeMetrics",
                                           machine_id |-> sample[1].machine_id,
                                           index |-> sample[1].index,
                                           data |-> mapping_result[1].response_parsed])
    /\ \E node \in Nodes : waited' = <<wait_start(node)>>
    /\ at' = "wait"
    /\ UNCHANGED <<refiner, mapper, args, phase, llm_mapping, dataset_idx, sample,
                   mapping_result, files, model_calls, failure, resumed>>

\* wait_for_transaction: one turn of its loop
P_Poll ==
    /\ phase = "ready"
    /\ at = "wait"
    /\ LET w == wait_step(waited[1], WaitTimeout, WaitInterval)
       IN  /\ waited' = <<w>>
           /\ IF w.returned = <<>>
              THEN UNCHANGED <<phase, failure, at>>
              ELSE IF w.returned[1].k = "raise"
              THEN Fails(w.returned[1]) /\ UNCHANGED at
              ELSE at' = "pushed" /\ UNCHANGED <<phase, failure>>
    /\ UNCHANGED <<refiner, mapper, args, llm_mapping, dataset_idx, sample, mapping_result,
                   files, chain_calls, model_calls, resumed>>

\* __push_to_blockchain: its return statement, on what the wait returned
P_Pushed ==
    /\ phase = "ready"
    /\ at = "pushed"
    /\ LET pushed == push_to_blockchain_return(waited[1].returned[1].value)
       IN  IF pushed.k = "raise"
           THEN Fails(pushed) /\ UNCHANGED at
           ELSE at' = "write" /\ UNCHANGED <<phase, failure>>
    /\ UNCHANGED <<refiner, mapper, args, llm_mapping, dataset_idx, sample, mapping_result,
                   files, chain_calls, model_calls, waited, resumed>>

\* The result line appended to raw_results/{machine_id}.jsonl
P_Write ==
    /\ phase = "ready"
    /\ at = "write"
    /\ raw_results' = Append(raw_results, [index |-> sample[1].index,
                                           machine_id |-> sample[1].machine_id,
                                           sample_idx |-> sample[1].sample_idx,
                                           error |-> mapping_result[1].error])
    /\ at' = "save"
    /\ UNCHANGED <<refiner, mapper, args, phase, llm_mapping, dataset_idx, sample,
                   mapping_result, last_index, chain_calls, model_calls, waited, failure,
                   resumed>>

\* self.__save_last_index(index) and the test that decides about the aggregation
P_Save ==
    /\ phase = "ready"
    /\ at = "save"
    /\ last_index' = sample[1].index
    /\ at' = IF args.blockchain /\ is_last_machine(dataset_idx) THEN "aggregate" ELSE "for"
    /\ UNCHANGED <<refiner, mapper, args, phase, llm_mapping, dataset_idx, sample,
                   mapping_result, raw_results, chain_calls, model_calls, waited, failure,
                   resumed>>

\* self.metric_caller.call_aggregate_metrics(target["date"])
P_Aggregate ==
    /\ phase = "ready"
    /\ at = "aggregate"
    /\ chain_calls' = Append(chain_calls, [fn |-> "aggregateBatchData",
                                           date |-> sample[1].date])
    /\ at' = "for"
    /\ UNCHANGED <<refiner, mapper, args, phase, llm_mapping, dataset_idx, sample,
                   mapping_result, files, model_calls, waited, failure, resumed>>

\* The process is stopped from outside, between any two statements of run()
P_Interrupt ==
    /\ phase = "ready"
    /\ phase' = "interrupted"
    /\ UNCHANGED <<refiner, mapper, args, llm_mapping, dataset_idx, at, sample, mapping_result,
                   files, chain_calls, model_calls, waited, failure, resumed>>

\* from_run_dir on the run directory of a process that has ended, up to
\* set_index: a new object with a new dataset
P_from_run_dir ==
    /\ phase \in {"interrupted", "failed", "done"}
    /\ llm_mapping # "unset"
    /\ ~resumed
    /\ resumed' = TRUE
    /\ llm_mapping' = "unset"
    /\ at' = "for"
    /\ sample' = <<>>
    /\ mapping_result' = <<>>
    /\ IF last_index = -1
       THEN /\ Fails(Raise("FileNotFoundError", <<"does not contain last_index.txt.">>))
            /\ dataset_idx' = 0
       ELSE LET moved == set_index(resume_index(last_index))
            IN  IF moved.k = "raise"
                THEN Fails(moved) /\ dataset_idx' = 0
                ELSE /\ dataset_idx' = moved.value
                     /\ phase' = "init_llm_mapping"
                     /\ failure' = <<>>
    /\ UNCHANGED <<refiner, mapper, args, files, chain_calls, model_calls, waited>>

NextPipeline ==
    \/ P_init_dataset
    \/ P_init_llm_mapping
    \/ P_Next
    \/ P_Map
    \/ P_Push
    \/ P_Poll
    \/ P_Pushed
    \/ P_Write
    \/ P_Save
    \/ P_Aggregate
    \/ P_Interrupt
    \/ P_from_run_dir

SpecPipeline == InitPipeline /\ [][NextPipeline]_vars

-----------------------------------------------------------------------------
(* Properties *)

Kind(k) == PyStr(<<k>>)
Calls(r) == Len(invoked[r])
Returned(r) == pc[r] = "returned"
Final(r) == final_result[r][1]
Last(h) == h[Len(h)]

C2_SuccessEndsRun ==
    \A r \in Runs : \A i \in 1..Len(history[r]) :
        (~history[r][i].error) =>
            /\ i = Len(history[r])
            /\ Calls(r) = i
            /\ Returned(r)
            /\ Final(r).result = history[r][i]

C2_Witness ==
    /\ Returned(1)
    /\ Len(history[1]) >= 2
    /\ ~Last(history[1]).error
    /\ history[1][1].error

\* C3 as stated: an attempt that failed with LLM_CALL_EXCEPTION is the last
\* attempt of its run, in both refiners.
C3_LlmCallExceptionEndsRun ==
    \A r \in Runs : \A i \in 1..Len(history[r]) :
        history[r][i].error_type = Kind("LLM_CALL_EXCEPTION") =>
            /\ i = Len(history[r])
            /\ Calls(r) = i
            /\ Returned(r)

C5_HistoryLength ==
    \A r \in Runs :
        Returned(r) =>
            /\ Len(Final(r).attempt_history) = Final(r).refinement_attempts + 1
            /\ Last(Final(r).attempt_history) = Final(r).result
            /\ Final(r).attempt_history = history[r]

C5_Witness ==
    /\ Returned(1)
    /\ Final(1).refinement_attempts >= 1
    /\ Len(Final(1).attempt_history) = Final(1).refinement_attempts + 1

RetryableFailure(inv) ==
    /\ inv.llm = "ok"
    /\ inv.usage = "present"
    /\ IF variant = "iterative"
       THEN inv.text \in {ReplyGarbage, ReplyMismatched, ReplyBadRecord}
       ELSE inv.text \in {ReplyProse} \cup
                {CodeReply(c) : c \in {CodeSyntax, CodeNoDef, CodeNotCallable, CodeRaises,
                                       CodeReturnsList, CodeBadRecord}}

\* C7 as stated: when attempt k (the k-th invocation is attempt k - 1) fails
\* with a retryable kind and its index is below max_attempts, the run goes on
\* to the next attempt.
C7_RetryableIsRetried ==
    \A r \in Runs : \A k \in 1..Calls(r) :
        (RetryableFailure(invoked[r][k]) /\ k - 1 < max_attempts) =>
            \/ Calls(r) > k
            \/ pc[r] = "loop" /\ attempts[r] = k

\* C8 as stated: no exception leaves __call__; every failure is returned as a
\* result with error = TRUE and its kind recorded.
C8_NoExceptionPropagates ==
    \A r \in Runs :
        /\ pc[r] # "raised"
        /\ raised[r] = <<>>
        /\ (Returned(r) /\ Final(r).result.error => Final(r).result.error_type # PyNone)

\* C9: when attempt 0 succeeds the run returns refinement_attempts = 0 and a
\* history of exactly one entry, which is a success.
C9_FirstAttemptSuccess ==
    \A r \in Runs :
        (Len(history[r]) >= 1 /\ ~history[r][1].error) =>
            /\ Returned(r)
            /\ Final(r).refinement_attempts = 0
            /\ Len(Final(r).attempt_history) = 1
            /\ ~Final(r).attempt_history[1].error
            /\ ~Final(r).result.error

C9_Witness ==
    /\ Returned(1)
    /\ Calls(1) = 1
    /\ Len(history[1]) = 1
    /\ ~history[1][1].error
    /\ history[1][1].response_parsed.t = "dict"

\* What attempt k produced: its result without the request that was sent
Outcome(single) ==
    [attempt |-> single.attempt,
     response_raw |-> single.response_raw,
     response_parsed |-> single.response_parsed,
     error |-> single.error,
     error_msg |-> single.error_msg,
     error_type |-> single.error_type]

\* The correction message attempt k + 1 of run r is or will be sent, for an
\* attempt k (history entry k) after which the loop went on
NextCorrection(r, k) ==
    IF k < Len(history[r]) THEN history[r][k + 1].payload.correction_msg
    ELSE correction_msg[r]

WentOn(r, k) ==
    /\ k \in 1..Len(history[r])
    /\ (k < Len(history[r]) \/ pc[r] = "loop")

\* C10: two runs whose attempts k produced the same result send the same
\* correction message in attempt k + 1, whatever their earlier attempts were.
C10_FeedbackFromLastAttemptOnly ==
    \A k \in 1..(MaxConfigured + 1) :
        (/\ WentOn(1, k)
         /\ WentOn(2, k)
         /\ Outcome(history[1][k]) = Outcome(history[2][k]))
            => NextCorrection(1, k) = NextCorrection(2, k)

\* Two runs that differ in attempt 0 and agree in attempt 1, both retried
C10_Witness ==
    /\ WentOn(1, 2)
    /\ WentOn(2, 2)
    /\ Outcome(history[1][1]) # Outcome(history[2][1])
    /\ Outcome(history[1][2]) = Outcome(history[2][2])
    /\ NextCorrection(1, 2) = NextCorrection(2, 2)
    /\ NextCorrection(1, 2) # <<>>

\* A call of the refiner that runs alone: its locals at the entry of __call__
\* and after each pass of the loop, as the code of __call__ computes them
\* for the invocations the call meets one after another.
SoloStart(src) ==
    [pc |-> "loop", src_copy |-> src, attempts |-> 0, correction_msg |-> <<>>,
     history |-> <<>>, final_result |-> <<>>]

SoloPassIterative(st, inv) ==
    LET single == IR_single_run(IR_payload(st.src_copy, st.correction_msg), st.attempts, inv)
        hist == Append(st.history, single)
    IN  IF IR_stop(single, st.attempts, max_attempts)
        THEN [st EXCEPT !.pc = "returned", !.history = hist,
                        !.final_result = <<IR_final_result(single, st.attempts, hist)>>]
        ELSE [st EXCEPT !.history = hist, !.attempts = @ + 1,
                        !.correction_msg = IR_correction_msg(single)]

SoloPassFunction(st, inv) ==
    LET out == FR_single_run(IR_payload(st.src_copy, st.correction_msg), st.attempts, inv)
        after == FR_input_after(inv, st.src_copy)
        single == [out.value EXCEPT !.payload.input_json = after]
        hist == Append(st.history, single)
    IN  IF out.k = "raise" THEN [st EXCEPT !.pc = "raised", !.src_copy = after]
        ELSE IF (~single.error) \/ FR_stop(single, st.attempts, max_attempts)
        THEN [st EXCEPT !.pc = "returned", !.history = hist, !.src_copy = after,
                        !.final_result = <<FR_final_result(single, st.attempts, hist)>>]
        ELSE [st EXCEPT !.history = hist, !.attempts = @ + 1, !.src_copy = after,
                        !.correction_msg = FR_build_correction_msg(single)]

RECURSIVE SoloRun(_, _)
SoloRun(st, invs) ==
    IF invs = <<>> \/ st.pc # "loop" THEN st
    ELSE SoloRun(IF variant = "iterative" THEN SoloPassIterative(st, Head(invs))
                 ELSE SoloPassFunction(st, Head(invs)),
                 Tail(invs))

\* C11: of two calls of one refiner instance that run interleaved, each has at
\* every point the counter, correction message and history, and returns the
\* refinement_attempts and attempt_history, of the same call running alone on
\* the same input and the same model replies.
C11_RunsIndependent ==
    \A r \in Runs :
        pc[r] # "idle" =>
            LET solo == SoloRun(SoloStart(source[r]), invoked[r])
            IN  /\ pc[r] = solo.pc
                /\ attempts[r] = solo.attempts
                /\ correction_msg[r] = solo.correction_msg
                /\ history[r] = solo.history
                /\ final_result[r] = solo.final_result

\* Both calls retried and returned, with different histories
C11_Witness ==
    /\ Returned(1)
    /\ Returned(2)
    /\ Final(1).refinement_attempts >= 1
    /\ Final(2).refinement_attempts >= 1
    /\ Final(1).refinement_attempts # Final(2).refinement_attempts
    /\ source[1] # source[2]

\* The error kinds of the attempts on record: of the entries of every call's
\* history and of the results the mapper returned
RecordedKinds ==
    UNION {{history[r][i].error_type : i \in 1..Len(history[r])} : r \in Runs}
    \cup {lm_results[i].value.error_type :
             i \in {j \in 1..Len(lm_results) : lm_results[j].k = "return"}}

Taxonomy ==
    {Kind(k) : k \in {"LLM_CALL_EXCEPTION", "PARSING_EXCEPTION", "SCHEMA_VALIDATION_ERROR",
                      "NO_CODE_BLOCK", "FUNCTION_SYNTAX_ERROR", "FUNCTION_NOT_FOUND",
                      "FUNCTION_NOT_CALLABLE", "FUNCTION_EXECUTION_EXCEPTION",
                      "FUNCTION_RETURN_TYPE"}}

\* C12: the error kind recorded on a failed attempt is one of the nine names
\* of the taxonomy, a schema violation being SCHEMA_VALIDATION_ERROR.
C12_KindsAreTaxonomy == RecordedKinds \subseteq Taxonomy \cup {PyNone}

\* A successful model call whose reply is one python code block that defines
\* map_raw_to_standard as the identity function
IdentityReply(inv) == inv.llm = "ok" /\ inv.text = CodeReply(CodeIdentity)

\* C13: a code-generation run whose model call succeeds with the identity
\* function in the reply's code block, on an input that already satisfies the
\* target schema, succeeds on attempt 0: error is False, refinement_attempts
\* is 0 and the history has one entry (for LlmMapping: the call's result has
\* error False).
C13_IdentitySucceedsAtOnce ==
    /\ \A r \in Runs :
           (/\ variant = "function"
            /\ source[r] = SourceConforming
            /\ Calls(r) >= 1
            /\ IdentityReply(invoked[r][1]))
           => /\ Returned(r)
              /\ ~Final(r).result.error
              /\ Final(r).refinement_attempts = 0
              /\ Len(Final(r).attempt_history) = 1
    /\ \A i \in 1..Len(lm_results) :
           (/\ prompt_type = "mapping_function"
            /\ lm_given[i] = SourceConforming
            /\ IdentityReply(lm_invoked[i]))
           => /\ lm_results[i].k = "return"
              /\ ~lm_results[i].value.error

\* The one kind the taxonomy names as non-retryable
NonRetryable(single) == single.error /\ single.error_type = Kind("LLM_CALL_EXCEPTION")

\* The step the transition rule prescribes after attempt k ended as single
RuleStep(single, k) ==
    IF ~single.error THEN "SUCCESS"
    ELSE IF NonRetryable(single) THEN "FATAL"
    ELSE IF k >= max_attempts THEN "EXHAUSTED"
    ELSE "RUNNING"

\* C14: after attempt k the loop takes the step the rule prescribes: success,
\* then a non-retryable kind, then k >= max_attempts end the run with that
\* attempt as its result, otherwise feedback is built and attempt k + 1
\* starts; no run ends otherwise, and a run that ends failed with a
\* retryable kind has refinement_attempts = max_attempts.
C14_TransitionRule ==
    \A r \in Runs :
        /\ pc[r] # "raised"
        /\ \A i \in 1..Len(history[r]) :
               IF RuleStep(history[r][i], i - 1) = "RUNNING"
               THEN \/ i < Len(history[r])
                    \/ /\ pc[r] = "loop"
                       /\ attempts[r] = i
                       /\ correction_msg[r] # <<>>
               ELSE /\ i = Len(history[r])
                    /\ Returned(r)
                    /\ Final(r).result = history[r][i]
                    /\ Final(r).refinement_attempts = i - 1
        /\ Returned(r) /\ Final(r).result.error /\ ~NonRetryable(Final(r).result)
           => Final(r).refinement_attempts = max_attempts

\* The correction message the refiner in use builds from a failed attempt
BuiltFrom(single) ==
    IF variant = "iterative" THEN IR_correction_msg(single) ELSE FR_build_correction_msg(single)

\* C15: the payload of attempt 0 carries the empty string as correction_msg,
\* and the payload recorded in history entry k + 1 carries exactly the
\* correction message built from history entry k.
C15_PayloadCarriesLastCorrection ==
    \A r \in Runs :
        \A i \in 1..Len(history[r]) :
            history[r][i].payload.correction_msg =
                IF i = 1 THEN <<>> ELSE BuiltFrom(history[r][i - 1])

\* Three attempts, the second and the third with different corrections
C15_Witness ==
    /\ Len(history[1]) = 3
    /\ history[1][2].payload.correction_msg # <<>>
    /\ history[1][3].payload.correction_msg # history[1][2].payload.correction_msg

\* Code that binds the name map_raw_to_standard to a value that cannot be called
BindsNonCallable(code) == code \in {<<CodeNotCallable>>, <<CodeBindsNone>>}

\* A model call that returned, with usage metadata, a reply ending in a python
\* code block outside any thinking part
CodeBlockReply(inv) ==
    /\ inv.llm = "ok"
    /\ inv.usage = "present"
    /\ HasFencePython(strip_thinking_tags(inv.text))
    /\ EndsWithFence(strip_thinking_tags(inv.text))

\* C16: in the code-generation adapter, code that binds map_raw_to_standard
\* to a value that is not callable makes the attempt fail with kind
\* FUNCTION_NOT_CALLABLE, and FUNCTION_NOT_FOUND is recorded only when the
\* code does not bind the name.
C16_NotCallableIsItsOwnKind ==
    /\ \A r \in Runs : \A i \in 1..Calls(r) :
           (/\ variant = "function"
            /\ CodeBlockReply(invoked[r][i])
            /\ BindsNonCallable(ExtractCode(strip_thinking_tags(invoked[r][i].text))))
           => /\ Len(history[r]) >= i
              /\ history[r][i].error_type = Kind("FUNCTION_NOT_CALLABLE")
    /\ \A i \in 1..Len(lm_results) :
           (prompt_type = "mapping_function" /\ CodeBlockReply(lm_invoked[i]))
           => /\ (BindsNonCallable(LM_code_str(lm_invoked[i].text))
                     => /\ lm_results[i].k = "return"
                        /\ lm_results[i].value.error_type = Kind("FUNCTION_NOT_CALLABLE"))
              /\ ((/\ lm_results[i].k = "return"
                    /\ lm_results[i].value.error_type = Kind("FUNCTION_NOT_FOUND"))
                     => ~BindsNonCallable(LM_code_str(lm_invoked[i].text)))

SameReply(inv1, inv2) == inv1.llm = "ok" /\ inv2.llm = "ok" /\ inv1.text = inv2.text

\* The attempts on record, each with the invocation it made: the entries of
\* every call's history and the results the mapper returned
AttemptsOnRecord ==
    UNION {{[inv |-> invoked[r][i], given |-> source[r], result |-> history[r][i]] :
               i \in 1..Len(history[r])} : r \in Runs}
    \cup {[inv |-> lm_invoked[i], given |-> lm_given[i], result |-> lm_results[i].value] :
             i \in {j \in 1..Len(lm_results) : lm_results[j].k = "return"}}

\* C18: token usage does not influence control: two attempts on the same
\* input whose model reply text is the same, with whatever usage metadata
\* (present or absent), have the same success flag and the same error kind.
C18_UsageDoesNotInfluenceControl ==
    \A a, b \in AttemptsOnRecord :
        (SameReply(a.inv, b.inv) /\ a.given = b.given)
        => /\ a.result.error = b.result.error
           /\ a.result.error_type = b.result.error_type

\* A model call that returned, with usage metadata, a reply whose only
\* python code block lies inside the thinking part
OnlyThinkingHasCode(inv) ==
    /\ inv.llm = "ok"
    /\ inv.usage = "present"
    /\ HasFencePython(inv.text)
    /\ ~HasFencePython(strip_thinking_tags(inv.text))

\* The code of the blocks inside the thinking part of a reply
CodeInThinking(text) ==
    {text[i] : i \in {j \in 1..Len(text) :
                         /\ \E o \in 1..(j - 1) :
                                text[o] = ThinkOpen /\ \A m \in o..j : text[m] # ThinkClose
                         /\ text[j] \notin {ThinkOpen, ThinkClose, Fence, FencePython, FenceJson}}}

\* C19: in the code-generation adapter the thinking part of the reply is
\* removed before the code block is located: a reply whose only python code
\* block lies inside the thinking part is recorded as NO_CODE_BLOCK, and the
\* code an attempt extracts and executes is never code of the thinking part.
C19_ThinkingIsStrippedFirst ==
    /\ \A r \in Runs : \A i \in 1..Calls(r) :
           (variant = "function" /\ OnlyThinkingHasCode(invoked[r][i]))
           => /\ Len(history[r]) >= i
              /\ history[r][i].error_type = Kind("NO_CODE_BLOCK")
    /\ \A r \in Runs : \A i \in 1..Len(history[r]) :
           (variant = "function" /\ history[r][i].response_parsed.t = "str")
           => \A c \in CodeInThinking(invoked[r][i].text) :
                  history[r][i].response_parsed.v # <<c>>
    /\ \A i \in 1..Len(lm_results) :
           prompt_type = "mapping_function"
           => /\ OnlyThinkingHasCode(lm_invoked[i])
                 => /\ lm_results[i].k = "return"
                    /\ lm_results[i].value.error_type = Kind("NO_CODE_BLOCK")
              /\ (lm_results[i].k = "return" /\ lm_results[i].value.response_parsed.t = "str")
                 => \A c \in CodeInThinking(lm_invoked[i].text) :
                        lm_results[i].value.response_parsed.v # <<c>>

\* A model call that returned a reply from which the JSON parser gets no
\* structured value: it raises, or it yields no value at all
NothingParsed(inv) ==
    /\ inv.llm = "ok"
    /\ LET parsed == parse_json_markdown(strip_thinking_tags(inv.text))
       IN  parsed.k = "raise" \/ parsed.value = PyNone

\* C20: in the direct-mapping adapter a reply from which no structured value
\* can be parsed, the parser yielding no value at all included, is recorded
\* as PARSING_EXCEPTION and never as a schema validation error.
C20_NothingParsedIsParsingException ==
    /\ \A r \in Runs : \A i \in 1..Len(history[r]) :
           (variant = "iterative" /\ NothingParsed(invoked[r][i]))
           => history[r][i].error_type = Kind("PARSING_EXCEPTION")
    /\ \A i \in 1..Len(lm_results) :
           (/\ prompt_type # "mapping_function"
            /\ NothingParsed(lm_invoked[i])
            /\ lm_invoked[i].usage = "present")
           => lm_results[i].value.error_type = Kind("PARSING_EXCEPTION")

\* part in text: the segments of part occur in text one after another
Contains(text, part) ==
    \E i \in 1..(Len(text) - Len(part) + 1) : SubSeq(text, i, i + Len(part) - 1) = part

\* C21: when attempt k of the code-generation refiner runs a generated
\* function that raises, the attempt is recorded as
\* FUNCTION_EXECUTION_EXCEPTION and the correction message passed to attempt
\* k + 1 contains the exception message unchanged, the failing code and the
\* restatement of the required single-function format.
C21_ExecutionExceptionFeedback ==
    \A r \in Runs : \A k \in 1..Calls(r) :
        (/\ variant = "function"
         /\ CodeBlockReply(invoked[r][k])
         /\ ExtractCode(invoked[r][k].text) = <<CodeRaises>>)
        => /\ Len(history[r]) >= k
           /\ history[r][k].error_type = Kind("FUNCTION_EXECUTION_EXCEPTION")
           /\ WentOn(r, k)
              => /\ Contains(NextCorrection(r, k), history[r][k].error_msg.v)
                 /\ Contains(NextCorrection(r, k), <<FencePython, CodeRaises, Fence>>)
                 /\ Contains(NextCorrection(r, k),
                             <<"that defines a *callable* function **map_raw_to_standard(raw: dict) -> dict**">>)

\* C22: the history is ordered oldest first with 0-based consecutive attempt
\* indices: after every step entry i (counted from 0) has attempt = i, and a
\* pass of the loop leaves the entries there are in place and at most
\* appends one.
C22_HistoryOrderedAppendOnly ==
    [][\A r \in Runs :
           /\ \A i \in 1..Len(history'[r]) : history'[r][i].attempt = i - 1
           /\ pc[r] = "loop" =>
                  /\ Len(history'[r]) \in {Len(history[r]), Len(history[r]) + 1}
                  /\ SubSeq(history'[r], 1, Len(history[r])) = history[r]]_vars

\* A returned run of three attempts numbered 0, 1, 2
C22_Witness ==
    /\ Returned(1)
    /\ Len(Final(1).attempt_history) = 3
    /\ \A i \in 1..3 : Final(1).attempt_history[i].attempt = i - 1
    /\ Final(1).attempt_history[1].error_type # Final(1).attempt_history[2].error_type

\* C23: a history entry is not changed after it has been appended: every
\* step of a call leaves each entry there is as it was, and the
\* attempt_history of the terminal result holds the entries as appended.
C23_EntriesNeverChange ==
    [][\A r \in Runs :
           /\ pc[r] # "idle" =>
                  \A i \in 1..Len(history[r]) :
                      /\ Len(history'[r]) >= i
                      /\ history'[r][i] = history[r][i]
           /\ pc'[r] = "returned" => final_result'[r][1].attempt_history = history'[r]]_vars

\* A run that succeeded at its second attempt, the failed first entry kept
C23_Witness ==
    /\ Returned(1)
    /\ Len(history[1]) = 2
    /\ history[1][1].error
    /\ ~Final(1).result.error
    /\ Final(1).attempt_history[1] = history[1][1]

\* A value is present when it is not None
Present(x) == x # PyNone

\* C24: a successful code-generation attempt records both the generated
\* source (response_parsed) and the record the function produced
\* (function_result), and response_parsed holds the source extracted from
\* the reply whenever the produced record is present.
C24_SourceKeptWithRecord ==
    /\ \A i \in 1..Len(lm_results) :
           (prompt_type = "mapping_function" /\ lm_results[i].k = "return")
           => LET res == lm_results[i].value
                  code == ExtractCode(strip_thinking_tags(lm_invoked[i].text))
              IN  /\ ~res.error => Present(res.function_result)
                  /\ Present(res.function_result) => res.response_parsed = PyStr(code)
    /\ \A r \in Runs : \A i \in 1..Len(history[r]) :
           variant = "function"
           => LET res == history[r][i]
              IN  /\ ~res.error => Present(res.function_result)
                  /\ Present(res.function_result)
                     => res.response_parsed = PyStr(ExtractCode(invoked[r][i].text))

\* A successful call whose reply held a draft in its thinking part, and a
\* failed call that kept the source and the rejected record
C24_Witness ==
    /\ prompt_type = "mapping_function"
    /\ Len(lm_results) = 2
    /\ lm_invoked[1].text = ReplyThinkDraftThenCode
    /\ lm_results[1].k = "return"
    /\ ~lm_results[1].value.error
    /\ lm_results[1].value.response_parsed = PyStr(<<CodeGoodRecord>>)
    /\ lm_results[1].value.function_result = PyDict(<<"{'x': 5}">>)
    /\ lm_results[2].k = "return"
    /\ lm_results[2].value.error_type = Kind("PYDANTIC_VALIDATION_ERROR")
    /\ Present(lm_results[2].value.function_result)

\* C25: in every returned result refinement_attempts is the attempt index of
\* the returned attempt, every history entry except the last is a failed
\* attempt, and the returned result is the last history entry with the two
\* added keys.
C25_ReturnedResultIsLastEntry ==
    \A r \in Runs :
        Returned(r) =>
            /\ Final(r).attempt_history # <<>>
            /\ Final(r).refinement_attempts = Final(r).result.attempt
            /\ Final(r).result = Last(Final(r).attempt_history)
            /\ \A i \in 1..(Len(Final(r).attempt_history) - 1) :
                   Final(r).attempt_history[i].error

\* A run returned its third attempt, a success after two failures
C25_Witness ==
    /\ Returned(1)
    /\ Final(1).refinement_attempts = 2
    /\ ~Final(1).result.error
    /\ Final(1).attempt_history[1].error
    /\ Final(1).attempt_history[2].error
    /\ Final(1).attempt_history[3] = Final(1).result


\* The contract invocations of one function made so far
ChainCalls(fn) == {i \in 1..Len(chain_calls) : chain_calls[i].fn = fn}

\* The mapping result of the sample with this index is at hand (the loop is
\* at that sample) or on file, and it is a failure
FailedSample(index) ==
    \/ /\ sample # <<>>
       /\ mapping_result # <<>>
       /\ sample[1].index = index
       /\ mapping_result[1].error
    \/ \E j \in 1..Len(raw_results) : raw_results[j].index = index /\ raw_results[j].error

\* C26: storeMetrics is invoked only with the blockchain flag on and only for
\* a sample whose mapping result is a validated record: the data pushed is
\* that record, and in the run that pushed it neither the result the loop
\* holds for the sample nor the line written for it has error = True.
C26_PushOnlyValidated ==
    \A i \in ChainCalls("storeMetrics") :
        /\ args.blockchain
        /\ chain_calls[i].data.t = "dict"
        /\ ~resumed => ~FailedSample(chain_calls[i].index)

\* One sample was pushed and the result line of another, which failed, is
\* on file without a push
C26_Witness ==
    /\ ChainCalls("storeMetrics") # {}
    /\ \E j \in 1..Len(raw_results) :
         /\ raw_results[j].error
         /\ \A i \in ChainCalls("storeMetrics") : chain_calls[i].index # raw_results[j].index


\* The result lines on file for one machine and one position in its samples
LinesOf(machine_id, sample_idx) ==
    {j \in 1..Len(raw_results) : /\ raw_results[j].machine_id = machine_id
                                 /\ raw_results[j].sample_idx = sample_idx}

\* The aggregateBatchData invocations made for one date
AggregatedFor(date) ==
    {i \in ChainCalls("aggregateBatchData") : chain_calls[i].date = date}

\* C27: the iterator yields index i as sample i div M of machine i mod M, so
\* a run that reaches the end without interruption has processed every
\* (machine, sample) pair once; aggregateBatchData for a date is invoked
\* only when the samples of all M machines for that date are processed, and
\* in an uninterrupted run at most once per date, once for every date when
\* the run has the blockchain flag and reaches the end.
C27_RoundRobinThenAggregate ==
    /\ \A i \in ChainCalls("aggregateBatchData") :
         \A m \in 1..MachineCount : LinesOf(m, chain_calls[i].date) # {}
    /\ ~resumed =>
         /\ \A j \in 1..Len(raw_results) :
              /\ raw_results[j].index = j - 1
              /\ raw_results[j].machine_id = ((j - 1) % MachineCount) + 1
              /\ raw_results[j].sample_idx = (j - 1) \div MachineCount
         /\ phase = "done" =>
              \A m \in 1..MachineCount, s \in 0..(SamplesPerMachine - 1) :
                  Cardinality(LinesOf(m, s)) = 1
         /\ \A i \in ChainCalls("aggregateBatchData") :
              Cardinality(AggregatedFor(chain_calls[i].date)) = 1
         /\ (phase = "done" /\ args.blockchain) =>
              \A d \in 0..(SamplesPerMachine - 1) : Cardinality(AggregatedFor(d)) = 1

\* A run with the blockchain flag has gone through the whole dataset and
\* aggregated every date
C27_Witness ==
    /\ phase = "done"
    /\ args.blockchain
    /\ Len(raw_results) = MachineCount * SamplesPerMachine
    /\ Cardinality(ChainCalls("aggregateBatchData")) = SamplesPerMachine
    /\ ChainCalls("storeMetrics") # {}


\* The result of the sample with this index is on file
Persisted(index) == \E j \in 1..Len(raw_results) : raw_results[j].index = index

\* C28: last_index.txt names a sample only when the result line of that
\* sample, and of every sample before it, is on file; a process resumed by
\* from_run_dir therefore starts at an index below which no result is
\* missing.
C28_ResumeSkipsNoMissingResult ==
    /\ \A index \in 0..last_index : Persisted(index)
    /\ (resumed /\ phase = "init_llm_mapping") =>
         \A index \in 0..(dataset_idx - 1) : Persisted(index)

\* A run was stopped after it had written a result line and before it saved
\* the index of that line; the resumed process stands at that sample again
C28_Witness ==
    /\ resumed
    /\ phase = "init_llm_mapping"
    /\ dataset_idx >= 1
    /\ Persisted(dataset_idx)
    /\ last_index = dataset_idx - 1


\* The construction of the mapper ended in an exception
MapperInitFailed ==
    /\ phase = "failed"
    /\ llm_mapping = "unset"
    /\ failure[1].exc \notin {"FileNotFoundError", "IndexError"}

\* The chain invocations made for the sample with this index
InvocationsFor(index) == {i \in 1..Len(model_calls) : model_calls[i] = index}

\* C29: self.llm_mapping is an IterativeRefiner only when
\* max_refinement_attempts > 0. With max_refinement_attempts <= 0 the
\* pipeline is constructed with the plain mapper, every sample a run
\* processes causes exactly one model invocation in that run and its result
\* has no attempt history. With a value > 0 and a provider other than Ollama the
\* construction fails and no sample is processed.
C29_RefinementOnlyWhenConfigured ==
    /\ llm_mapping = "IterativeRefiner" => args.max_refinement_attempts > 0
    /\ args.max_refinement_attempts <= 0 =>
         /\ ~MapperInitFailed
         /\ phase \in {"ready", "done", "interrupted"} => llm_mapping = "LlmMapping"
         /\ ~resumed =>
                \A j \in 1..Len(raw_results) :
                    Cardinality(InvocationsFor(raw_results[j].index)) = 1
         /\ mapping_result # <<>> => "attempt_history" \notin DOMAIN mapping_result[1]
    /\ (args.max_refinement_attempts > 0 /\ args.model_provider # "ollama") =>
         /\ phase \in {"new", "init_llm_mapping", "failed"}
         /\ model_calls = <<>>
         /\ raw_results = <<>>


\* The most polls one wait_for_transaction may make: timeout / interval
MostPolls == WaitTimeout \div WaitInterval

\* C30: wait_for_transaction ends after at most timeout/interval polls; what
\* it returns is the info of the first poll that carries a height, or None
\* when no poll within the timeout did; and the push step that called it
\* goes on to write the result whichever of the two it got.
C30_WaitEndsAndPushGoesOn ==
    /\ waited # <<>> =>
         LET w == waited[1]
         IN  /\ w.polls <= MostPolls
             /\ w.returned # <<>> =>
                  /\ w.returned[1].k = "return"
                  /\ w.returned[1].value.t # "None" =>
                       /\ w.node.kind = "confirmed"
                       /\ w.polls = w.node.at
                  /\ w.returned[1].value.t = "None" =>
                       /\ w.polls = MostPolls
                       /\ ~(w.node.kind = "confirmed" /\ w.node.at <= MostPolls)
    /\ ~(phase = "failed" /\ at \in {"wait", "pushed"})

====
